---- MODULE Spec2Model ----
(***************************************************************************)
(* Model of src/dataset.py: the Dataset built from corpus statistics, the  *)
(* sequence generator gen_seq, the generator gen_seqs, gen_batch and the   *)
(* seeded stream iterate_batches.                                          *)
(*                                                                         *)
(* Tokens are the ids 0..V-1.  Python lists are sequences (1-based here,   *)
(* 0-based in the source).  A probability is a pair num/den; 0/0 is the    *)
(* NaN numpy produces when it divides a zero vector by its zero sum.       *)
(* Symbols are identified with their ids (stoi is the identity).           *)
(***************************************************************************)
EXTENDS Integers, Sequences, FiniteSets, TLC

\* ---------------------------------------------------------------- bounds
MaxV      == 3      \* vocabulary sizes 1..MaxV
MaxVSplit == 5      \* vocabulary sizes 1..MaxVSplit with a train/test split
MaxLSplit == 1      \* sequence lengths with a vocabulary larger than MaxV
MaxK      == 2      \* trigger counts 0..MaxK
MaxL      == 3      \* sequence lengths 1..MaxL
MaxOffset == 1      \* rank offsets 0..MaxOffset
MaxPulls  == 2      \* batches pulled from one stream
MaxBatch  == 1      \* batch sizes 1..MaxBatch
MaxVStreams == 2    \* vocabulary sizes of the two-stream specification
MaxLStreams == 1    \* sequence lengths of the two-stream specification

DefaultSeed == 42   \* the seed iterate_batches uses by default
Seeds   == {DefaultSeed}
Streams == {1, 2}

\* ------------------------------------------------------- list helpers
RECURSIVE SumSeq(_)
SumSeq(s) == IF s = <<>> THEN 0 ELSE Head(s) + SumSeq(Tail(s))

Range(s) == {s[i] : i \in 1..Len(s)}

\* Python's s[start:stop] for a list of length n (start, stop 0-based ints)
ClampIndex(i, n) == IF i < 0 THEN (IF i + n < 0 THEN 0 ELSE i + n)
                    ELSE (IF i > n THEN n ELSE i)

PySlice(s, start, stop) ==
  LET n  == Len(s)
      lo == ClampIndex(start, n)
      hi == ClampIndex(stop, n)
  IN  IF lo >= hi THEN <<>> ELSE [i \in 1..(hi - lo) |-> s[lo + i]]

\* list.index(x): 0-based position of the first occurrence
ListIndex(s, x) == (CHOOSE i \in 1..Len(s) : s[i] = x /\ \A j \in 1..(i-1) : s[j] # x) - 1

\* list.remove(x): drop the first occurrence
ListRemove(s, x) ==
  LET p == ListIndex(s, x) + 1
  IN  [i \in 1..(Len(s) - 1) |-> IF i < p THEN s[i] ELSE s[i + 1]]

\* ------------------------------------------------------- probabilities
IsNaN(p) == p.den = 0
Positive(p) == p.den > 0 /\ p.num > 0

\* v /= v.sum() on a vector of counts indexed by token
Normalize(v, V) ==
  LET total == SumSeq([i \in 1..V |-> v[i - 1]])
  IN  [t \in 0..(V - 1) |-> [num |-> v[t], den |-> total]]

\* ------------------------------------------------------- the inputs
Tok(V) == 0..(V - 1)

\* unigram counts: strictly decreasing with the id; flat with token 0 unseen;
\* an empty corpus
UnigramTables(V) ==
  { [t \in Tok(V) |-> V - t],
    [t \in Tok(V) |-> IF t = 0 /\ V > 1 THEN 0 ELSE 1],
    [t \in Tok(V) |-> 0] }

\* bigram counts: a ring (each token is followed by itself or its successor);
\* the ring where the last token is never followed by anything
Ring(V) == [w \in Tok(V) \X Tok(V) |->
              IF w[2] = w[1] \/ w[2] = (w[1] + 1) % V THEN 1 ELSE 0]
BigramTables(V) ==
  { Ring(V),
    [w \in Tok(V) \X Tok(V) |-> IF w[1] = V - 1 THEN 0 ELSE Ring(V)[w]] }

Metas ==
  UNION { { [vocab_size |-> V, unigrams |-> u, bigrams |-> b] :
              u \in UnigramTables(V), b \in BigramTables(V) } :
          V \in 1..(IF MaxV > MaxVSplit THEN MaxV ELSE MaxVSplit) }

DataArgs ==
  [ k : 0..MaxK, seq_length : 1..MaxL, show_latents : BOOLEAN,
    fixed_special_toks : BOOLEAN, special_toks_offset : 0..MaxOffset,
    output_counter : BOOLEAN, no_repeat : BOOLEAN ]

TrainTest == {"None", "train", "test"}

VARIABLES
  args,         \* the DataArgs given to Dataset(...)
  train_test,   \* the train_test argument ("None" is Python's None)
  bigram_outs,  \* the bigram_outs argument
  meta,         \* the content of data/meta.pkl
  obj,          \* "new", "built" (the constructor returned) or "raised"
  self,         \* the fields of the Dataset object
  fr,           \* per stream: the frame of the gen_seq call in progress
  bt,           \* per stream: the generator, and the frame of gen_batch
  tape,         \* per seed: the draws a generator seeded with it has produced
  ys            \* per stream: the triples yielded so far

vars == <<args, train_test, bigram_outs, meta, obj, self, fr, bt, tape, ys>>
inputs == <<args, train_test, bigram_outs, meta>>

\* ------------------------------------------------------- Dataset.__init__
\* int(0.75 * num_tokens)
NTrainToks(V) == (3 * V) \div 4

\* list(np.arange(num_tokens))
TokRange(V) == [i \in 1..V |-> i - 1]

\* self.marginal: the unigram counts divided by their sum
Marginal(m) == Normalize(m.unigrams, m.vocab_size)

\* self.cond: row i holds the accumulated counts of the bigrams starting
\* with i, divided by the row's sum
Cond(m) ==
  [i \in Tok(m.vocab_size) |->
     Normalize([j \in Tok(m.vocab_size) |-> m.bigrams[<<i, j>>]], m.vocab_size)]

\* the results marginal.argsort() may give: the ids in ascending order of
\* probability, ties in any order (the default sort is not stable)
ArgSorts(p, V) ==
  { o \in [1..V -> Tok(V)] :
      /\ \A i, j \in 1..V : i # j => o[i] # o[j]
      /\ \A i, j \in 1..V : i < j => p[o[i]].num <= p[o[j]].num }

\* marginal.argsort()[V-offset-k : V-offset]
SpecialToks(order, V, offset, k) == PySlice(order, V - offset - k, V - offset)

NoFrame ==
  [pc |-> "idle", idxs |-> <<>>, outs |-> <<>>, cnts |-> <<>>,
   seq |-> <<>>, outputs_seq |-> <<>>]

NoObject ==
  [k |-> 0, seq_length |-> 0, show_latents |-> FALSE, train_test |-> "None",
   output_counter |-> FALSE, no_repeat |-> FALSE, bigram_outs |-> FALSE,
   num_tokens |-> 0, tok_range |-> <<>>, n_train_toks |-> 0,
   marginal |-> <<>>, cond |-> <<>>, idxs_none |-> TRUE, idxs |-> <<>>]

\* the object the constructor builds, given the order argsort returned
Built(order) ==
  LET V == meta.vocab_size IN
  [k |-> args.k, seq_length |-> args.seq_length,
   show_latents |-> args.show_latents, train_test |-> train_test,
   output_counter |-> args.output_counter, no_repeat |-> args.no_repeat,
   bigram_outs |-> bigram_outs,
   num_tokens |-> V, tok_range |-> TokRange(V),
   n_train_toks |-> IF train_test # "None" THEN NTrainToks(V) ELSE V,
   marginal |-> Marginal(meta), cond |-> Cond(meta),
   idxs_none |-> ~args.fixed_special_toks,
   idxs |-> IF args.fixed_special_toks
            THEN SpecialToks(order, V, args.special_toks_offset, args.k)
            ELSE <<>>]

\* assert not self.bigram_outs, when a split is requested
DatasetInitRaise ==
  /\ obj = "new"
  /\ train_test # "None" /\ bigram_outs
  /\ obj' = "raised"
  /\ UNCHANGED <<inputs, self, fr, bt, tape, ys>>

DatasetInit ==
  /\ obj = "new"
  /\ ~(train_test # "None" /\ bigram_outs)
  /\ \E order \in ArgSorts(Marginal(meta), meta.vocab_size) : self' = Built(order)
  /\ obj' = "built"
  /\ UNCHANGED <<inputs, fr, bt, tape, ys>>

\* ------------------------------------------------------- the generator
\* np.random.default_rng() without the seed: fresh entropy
DefaultRngUnseeded(seed) == [seeded |-> FALSE, seed |-> seed, pos |-> 0]

\* np.random.default_rng(seed); a generator handed in by a caller is in a
\* state the model does not know (seeded = FALSE)
DefaultRng(seed) == [seeded |-> TRUE, seed |-> seed, pos |-> 0]
CallerRng == [seeded |-> FALSE, seed |-> 0, pos |-> 0]

\* one call of rng.choice by stream s with the possible outcomes cands gives
\* v: any of them, but a seeded generator repeats what the tape holds for
\* this seed, this position and these arguments
Drawn(s, cands, v) ==
  LET r == bt[s].rng IN
  /\ v \in cands
  /\ (r.seeded /\ r.pos < Len(tape[r.seed]) /\ tape[r.seed][r.pos + 1].args = cands)
       => v = tape[r.seed][r.pos + 1].val

Advance(s, cands, v) ==
  LET r == bt[s].rng IN
  /\ bt' = [bt EXCEPT ![s].rng.pos = IF r.seeded THEN @ + 1 ELSE @]
  /\ tape' = IF r.seeded /\ r.pos = Len(tape[r.seed])
             THEN [tape EXCEPT ![r.seed] = Append(@, [args |-> cands, val |-> v])]
             ELSE tape

\* ------------------------------------------------------- Dataset.gen_seq
HasNaN(p) == \E x \in DOMAIN p : IsNaN(p[x])

\* rng.choice(tok_range, p=marginal, size=k, replace=False)
SelectRaises ==
  \/ HasNaN(self.marginal)
  \/ self.k > self.num_tokens
  \/ Cardinality({t \in Tok(self.num_tokens) : Positive(self.marginal[t])}) < self.k

SelectCands ==
  LET S == {t \in Tok(self.num_tokens) : Positive(self.marginal[t])}
  IN  { f \in [1..self.k -> S] : \A i, j \in 1..self.k : i # j => f[i] # f[j] }

\* the pool without the removal of idx
PoolWithSelf(idx) == self.tok_range

\* the candidate pool of trigger idx
Pool(idx) == IF self.no_repeat THEN ListRemove(self.tok_range, idx) ELSE self.tok_range

\* cond[idx][pool] / cond[idx][pool].sum()
Renorm(row, pool) ==
  LET total == SumSeq([i \in 1..Len(pool) |-> row[pool[i]].num])
  IN  [i \in 1..Len(pool) |->
         [num |-> row[pool[i]].num, den |-> IF HasNaN(row) THEN 0 ELSE total]]

\* the whole pool in every mode
OutListWholePool(idx) == IF self.no_repeat THEN ListRemove(self.tok_range, idx) ELSE self.tok_range

\* the list the response of trigger idx is drawn from, by mode
OutList(idx) ==
  LET pool == Pool(idx) IN
  IF self.train_test = "None" THEN pool
  ELSE IF self.train_test = "train" THEN PySlice(pool, 0, self.n_train_toks)
  ELSE PySlice(pool, self.n_train_toks, Len(pool))

\* the ids rng.choice can return for trigger idx (none: the call raises)
OutCands(idx) ==
  LET a == OutList(idx) IN
  IF self.train_test = "None" /\ self.bigram_outs
  THEN LET p == Renorm(self.cond[idx], a)
       IN  IF HasNaN(p) THEN {} ELSE {a[i] : i \in {j \in 1..Len(a) : Positive(p[j])}}
  ELSE Range(a)

OutsCands(idxs) ==
  { f \in [1..Len(idxs) -> Tok(self.num_tokens)] :
      \A i \in 1..Len(idxs) : f[i] \in OutCands(idxs[i]) }

Raise(s) == fr' = [fr EXCEPT ![s] = [NoFrame EXCEPT !.pc = "raised"]]

\* lines 73-74: the triggers chosen at construction
GenSeqSelectFixed(s) ==
  /\ fr[s].pc = "select"
  /\ ~self.idxs_none
  /\ fr' = [fr EXCEPT ![s].idxs = self.idxs, ![s].pc = "outs"]
  /\ UNCHANGED <<inputs, obj, self, bt, tape, ys>>

\* lines 75-76: k triggers drawn without replacement, weighted by the marginal
GenSeqSelectRandom(s) ==
  /\ fr[s].pc = "select"
  /\ self.idxs_none
  /\ ~SelectRaises
  /\ \E v \in SelectCands :
       /\ Drawn(s, SelectCands, v)
       /\ Advance(s, SelectCands, v)
       /\ fr' = [fr EXCEPT ![s].idxs = v, ![s].pc = "outs"]
  /\ UNCHANGED <<inputs, obj, self, ys>>

GenSeqSelectRaise(s) ==
  /\ fr[s].pc = "select"
  /\ self.idxs_none
  /\ SelectRaises
  /\ Raise(s)
  /\ UNCHANGED <<inputs, obj, self, bt, tape, ys>>

\* lines 80-99: one response per trigger
GenSeqOuts(s) ==
  /\ fr[s].pc = "outs"
  /\ \A i \in 1..Len(fr[s].idxs) : OutCands(fr[s].idxs[i]) # {}
  /\ LET cands == OutsCands(fr[s].idxs) IN
     \E v \in cands :
       /\ fr' = [fr EXCEPT ![s].outs = v, ![s].pc = "first"]
       /\ IF Len(fr[s].idxs) = 0
          THEN UNCHANGED <<bt, tape>>
          ELSE Drawn(s, cands, v) /\ Advance(s, cands, v)
  /\ UNCHANGED <<inputs, obj, self, ys>>

\* rng.choice on an empty list, or with probabilities that are NaN
GenSeqOutsRaise(s) ==
  /\ fr[s].pc = "outs"
  /\ \E i \in 1..Len(fr[s].idxs) : OutCands(fr[s].idxs[i]) = {}
  /\ Raise(s)
  /\ UNCHANGED <<inputs, obj, self, bt, tape, ys>>

\* the tokens rng.choice(tok_range, p=p) can return
ChoiceCands(p) == { <<t>> : t \in {u \in DOMAIN p : Positive(p[u])} }

\* lines 101-109: the latent prefix and the first sampled token
GenSeqFirst(s) ==
  /\ fr[s].pc = "first"
  /\ ~HasNaN(self.marginal)
  /\ LET idxs  == fr[s].idxs
         cands == ChoiceCands(self.marginal) IN
     \E v \in cands :
       /\ Drawn(s, cands, v)
       /\ Advance(s, cands, v)
       /\ fr' = [fr EXCEPT
            ![s].cnts = <<>>,
            ![s].seq = (IF self.show_latents THEN idxs ELSE <<>>) \o v,
            ![s].outputs_seq = IF self.show_latents
                               THEN [i \in 1..Len(idxs) |-> -1] ELSE <<>>,
            ![s].pc = "loop"]
  /\ UNCHANGED <<inputs, obj, self, ys>>

GenSeqFirstRaise(s) ==
  /\ fr[s].pc = "first"
  /\ HasNaN(self.marginal)
  /\ Raise(s)
  /\ UNCHANGED <<inputs, obj, self, bt, tape, ys>>

\* seq[0] in place of seq[-1]
LastIsFirst(seq) == seq[1]

Last(seq) == seq[Len(seq)]

\* cnts.get(last, 1) + 1
BumpFromOne(cnts, last) == IF last \in DOMAIN cnts THEN cnts[last] + 1 ELSE 2

\* cnts.get(last, 0) + 1
Bump(cnts, last) == IF last \in DOMAIN cnts THEN cnts[last] + 1 ELSE 1

\* lines 112-118: the last token is a trigger
GenSeqTrigger(s) ==
  LET f == fr[s]
      last == Last(f.seq) IN
  /\ f.pc = "loop"
  /\ Len(f.seq) < self.seq_length + 1
  /\ last \in Range(f.idxs)
  /\ fr' = [fr EXCEPT
       ![s].seq = Append(f.seq, f.outs[ListIndex(f.idxs, last) + 1]),
       ![s].cnts = IF self.output_counter
                   THEN [t \in DOMAIN f.cnts \cup {last} |->
                           IF t = last THEN Bump(f.cnts, last) ELSE f.cnts[t]]
                   ELSE f.cnts,
       ![s].outputs_seq = Append(f.outputs_seq,
                                 IF self.output_counter THEN Bump(f.cnts, last) ELSE 1)]
  /\ UNCHANGED <<inputs, obj, self, bt, tape, ys>>

\* lines 119-122: the last token is not a trigger
GenSeqBackground(s) ==
  LET f == fr[s]
      last == Last(f.seq)
      probs == self.cond[last]
      cands == ChoiceCands(probs) IN
  /\ f.pc = "loop"
  /\ Len(f.seq) < self.seq_length + 1
  /\ last \notin Range(f.idxs)
  /\ ~HasNaN(probs)
  /\ \E v \in cands :
       /\ Drawn(s, cands, v)
       /\ Advance(s, cands, v)
       /\ fr' = [fr EXCEPT ![s].seq = f.seq \o v,
                           ![s].outputs_seq = Append(f.outputs_seq, 0)]
  /\ UNCHANGED <<inputs, obj, self, ys>>

GenSeqBackgroundRaise(s) ==
  LET f == fr[s]
      last == Last(f.seq) IN
  /\ f.pc = "loop"
  /\ Len(f.seq) < self.seq_length + 1
  /\ last \notin Range(f.idxs)
  /\ HasNaN(self.cond[last])
  /\ Raise(s)
  /\ UNCHANGED <<inputs, obj, self, bt, tape, ys>>

\* lines 123-125
GenSeqReturn(s) ==
  /\ fr[s].pc = "loop"
  /\ ~(Len(fr[s].seq) < self.seq_length + 1)
  /\ fr' = [fr EXCEPT ![s].outputs_seq = Append(@, 0), ![s].pc = "returned"]
  /\ UNCHANGED <<inputs, obj, self, bt, tape, ys>>

\* ------------------------------------------------------- Dataset.gen_seqs
\* the generator's loop: each next() runs one gen_seq with the caller's rng
GenSeqs(s) ==
  /\ obj = "built"
  /\ bt[s].bpc = "none"
  /\ fr[s].pc \in {"idle", "returned"}
  /\ fr' = [fr EXCEPT ![s] = [NoFrame EXCEPT !.pc = "select"]]
  /\ UNCHANGED <<inputs, obj, self, bt, tape, ys>>

NoBatch(bpc, B, seed) ==
  [rng |-> CallerRng, bpc |-> bpc, batch_size |-> B, seed |-> seed,
   n |-> 0, seqs |-> <<>>, outs |-> <<>>]

\* ------------------------------------------------------- iterate_batches
\* np.array(flat).reshape(B, W): the rows of a flat list
Reshape(flat, B, W) == [i \in 1..B |-> [j \in 1..W |-> flat[(i - 1) * W + j]]]

\* a[:, :-1] and a[:, 1:]
DropLastCol(a) == [i \in 1..Len(a) |-> PySlice(a[i], 0, Len(a[i]) - 1)]
DropFirstCol(a) == [i \in 1..Len(a) |-> PySlice(a[i], 1, Len(a[i]))]

\* Python runs one next() to its yield before any other code: a stream
\* moves only while no other stream is inside a pull
Running(s) == bt[s].bpc = "batch"

\* line 158, at the first next(): the stream's own generator
IterStart(s) ==
  /\ obj = "built"
  /\ bt[s].bpc = "created"
  /\ \A o \in DOMAIN bt : ~Running(o)
  /\ bt' = [bt EXCEPT ![s].rng = DefaultRng(bt[s].seed), ![s].bpc = "ready"]
  /\ UNCHANGED <<inputs, obj, self, fr, tape, ys>>

\* lines 160-161 and 133-134: next() enters gen_batch
IterNext(s) ==
  /\ bt[s].bpc = "ready"
  /\ \A o \in DOMAIN bt : ~Running(o)
  /\ Len(ys[s]) < MaxPulls
  /\ bt' = [bt EXCEPT ![s].bpc = "batch", ![s].n = 0, ![s].seqs = <<>>, ![s].outs = <<>>]
  /\ UNCHANGED <<inputs, obj, self, fr, tape, ys>>

\* lines 135-136: the call of gen_seq with the stream's generator
GenBatchCall(s) ==
  /\ Running(s)
  /\ bt[s].n < bt[s].batch_size
  /\ fr[s].pc = "idle"
  /\ fr' = [fr EXCEPT ![s] = [NoFrame EXCEPT !.pc = "select"]]
  /\ UNCHANGED <<inputs, obj, self, bt, tape, ys>>

\* lines 136-138: the returned lists are appended to the flat lists
GenBatchCollect(s) ==
  /\ Running(s)
  /\ fr[s].pc = "returned"
  /\ bt' = [bt EXCEPT ![s].n = @ + 1,
                      ![s].seqs = @ \o fr[s].seq,
                      ![s].outs = @ \o fr[s].outputs_seq]
  /\ fr' = [fr EXCEPT ![s] = NoFrame]
  /\ UNCHANGED <<inputs, obj, self, tape, ys>>

\* an exception of gen_seq ends the generator
GenBatchRaise(s) ==
  /\ Running(s)
  /\ fr[s].pc = "raised"
  /\ bt' = [bt EXCEPT ![s].bpc = "raised"]
  /\ UNCHANGED <<inputs, obj, self, fr, tape, ys>>

\* lines 139-140: reshape raises unless the flat lists hold B * (L+1) items
ReshapeRaise(s) ==
  /\ Running(s)
  /\ bt[s].n = bt[s].batch_size
  /\ Len(bt[s].seqs) # bt[s].batch_size * (self.seq_length + 1)
  /\ bt' = [bt EXCEPT ![s].bpc = "raised"]
  /\ UNCHANGED <<inputs, obj, self, fr, tape, ys>>

\* lines 139-141 and 162: the batch is reshaped and the triple is yielded
IterYield(s) ==
  /\ Running(s)
  /\ bt[s].n = bt[s].batch_size
  /\ Len(bt[s].seqs) = bt[s].batch_size * (self.seq_length + 1)
  /\ LET x    == Reshape(bt[s].seqs, bt[s].batch_size, self.seq_length + 1)
         outs == Reshape(bt[s].outs, bt[s].batch_size, self.seq_length + 1)
     IN  ys' = [ys EXCEPT ![s] = Append(@, <<DropLastCol(x), DropFirstCol(x), DropLastCol(outs)>>)]
  /\ bt' = [bt EXCEPT ![s].bpc = "ready", ![s].n = 0, ![s].seqs = <<>>, ![s].outs = <<>>]
  /\ UNCHANGED <<inputs, obj, self, fr, tape>>

\* ------------------------------------------------------- specifications
InitInputs ==
  /\ args \in DataArgs
  /\ train_test \in TrainTest
  /\ bigram_outs \in BOOLEAN
  /\ meta \in Metas
  /\ args.fixed_special_toks \/ args.special_toks_offset = 0
  /\ obj = "new"
  /\ self = NoObject
  /\ tape = [sd \in Seeds |-> <<>>]

\* one gen_seqs generator driven with a generator of the caller
Caller ==
  /\ fr = [s \in {1} |-> NoFrame]
  /\ bt = [s \in {1} |-> NoBatch("none", 0, 0)]
  /\ ys = [s \in {1} |-> <<>>]

\* the larger vocabularies are explored with a split only: a test-mode pool
\* without the trigger has a test portion only from 5 tokens on
Init ==
  /\ InitInputs
  /\ \/ meta.vocab_size <= MaxV
     \/ /\ train_test # "None"
        /\ meta.vocab_size <= MaxVSplit
        /\ args.seq_length <= MaxLSplit
  /\ Caller

Next ==
  \/ DatasetInitRaise
  \/ DatasetInit
  \/ \E s \in DOMAIN fr : GenSeqs(s)
  \/ \E s \in DOMAIN fr : GenSeqSelectFixed(s)
  \/ \E s \in DOMAIN fr : GenSeqSelectRandom(s)
  \/ \E s \in DOMAIN fr : GenSeqSelectRaise(s)
  \/ \E s \in DOMAIN fr : GenSeqOuts(s)
  \/ \E s \in DOMAIN fr : GenSeqOutsRaise(s)
  \/ \E s \in DOMAIN fr : GenSeqFirst(s)
  \/ \E s \in DOMAIN fr : GenSeqFirstRaise(s)
  \/ \E s \in DOMAIN fr : GenSeqTrigger(s)
  \/ \E s \in DOMAIN fr : GenSeqBackground(s)
  \/ \E s \in DOMAIN fr : GenSeqBackgroundRaise(s)
  \/ \E s \in DOMAIN fr : GenSeqReturn(s)

Spec == Init /\ [][Next]_vars


\* two iterate_batches streams over one Dataset, created with the same
\* batch size and the same seed
InitStreams ==
  /\ InitInputs
  /\ meta.vocab_size <= MaxVStreams
  /\ args.seq_length <= MaxLStreams
  /\ fr = [s \in Streams |-> NoFrame]
  /\ \E B \in 1..MaxBatch, seed \in Seeds :
       bt = [s \in Streams |-> NoBatch("created", B, seed)]
  /\ ys = [s \in Streams |-> <<>>]

NextStreams ==
  \/ DatasetInitRaise
  \/ DatasetInit
  \/ \E s \in Streams : IterStart(s)
  \/ \E s \in Streams : IterNext(s)
  \/ \E s \in Streams : GenBatchCall(s)
  \/ \E s \in Streams : GenBatchCollect(s)
  \/ \E s \in Streams : GenBatchRaise(s)
  \/ \E s \in Streams : ReshapeRaise(s)
  \/ \E s \in Streams : IterYield(s)
  \/ \E s \in Streams : GenSeqSelectFixed(s)
  \/ \E s \in Streams : GenSeqSelectRandom(s)
  \/ \E s \in Streams : GenSeqSelectRaise(s)
  \/ \E s \in Streams : GenSeqOuts(s)
  \/ \E s \in Streams : GenSeqOutsRaise(s)
  \/ \E s \in Streams : GenSeqFirst(s)
  \/ \E s \in Streams : GenSeqFirstRaise(s)
  \/ \E s \in Streams : GenSeqTrigger(s)
  \/ \E s \in Streams : GenSeqBackground(s)
  \/ \E s \in Streams : GenSeqBackgroundRaise(s)
  \/ \E s \in Streams : GenSeqReturn(s)

SpecStreams == InitStreams /\ [][NextStreams]_vars

\* ------------------------------------------------------- properties
\* the frames in which gen_seq has chosen the triggers and their responses
Chosen(f) == f.pc \in {"first", "loop", "returned"}
\* the frames that hold a sequence under construction or returned
Sampled(f) == f.pc \in {"loop", "returned"}
\* the length of the latent prefix of the frame's sequence
PrefixLen(f) == IF self.show_latents THEN Len(f.idxs) ELSE 0
\* the response of trigger token t in frame f
ResponseOf(f, t) == f.outs[CHOOSE i \in 1..Len(f.idxs) : f.idxs[i] = t]
\* the occurrences of seq[p] at the positions lo..p
Occurrences(seq, lo, p) == Cardinality({q \in lo..p : seq[q] = seq[p]})

\* C1: every sequence and annotation list gen_seq returns has length L+1
C1_LengthIsLPlus1 ==
  \A s \in DOMAIN fr :
    fr[s].pc = "returned" =>
      /\ Len(fr[s].seq) = self.seq_length + 1
      /\ Len(fr[s].outputs_seq) = self.seq_length + 1

\* C2 (as claimed): every trigger token at a position that is not the last
\* is followed by the response of that trigger
C2_EveryTriggerFollowedByResponse ==
  \A s \in DOMAIN fr :
    fr[s].pc = "returned" =>
      \A p \in 1..(Len(fr[s].seq) - 1) :
        fr[s].seq[p] \in Range(fr[s].idxs) =>
          fr[s].seq[p + 1] = ResponseOf(fr[s], fr[s].seq[p])

\* C2 (amended): every trigger token at a sampled position (one after the
\* latent prefix) that is not the last is followed by the response chosen
\* for that trigger before the loop, the same at every occurrence
C2_SampledTriggerFollowedByResponse ==
  \A s \in DOMAIN fr :
    Sampled(fr[s]) =>
      LET f == fr[s] IN
      /\ \A p \in (PrefixLen(f) + 1)..(Len(f.seq) - 1) :
           f.seq[p] \in Range(f.idxs) => f.seq[p + 1] = ResponseOf(f, f.seq[p])
      /\ \A p, q \in (PrefixLen(f) + 1)..(Len(f.seq) - 1) :
           (f.seq[p] \in Range(f.idxs) /\ f.seq[p] = f.seq[q])
             => f.seq[p + 1] = f.seq[q + 1]

C2_Witness ==
  \E s \in DOMAIN fr :
    LET f == fr[s] IN
    /\ f.pc = "returned"
    /\ self.show_latents
    /\ Len(f.idxs) > 0
    /\ \E p \in (PrefixLen(f) + 1)..(Len(f.seq) - 1) :
         f.seq[p] \in Range(f.idxs) /\ f.seq[p + 1] # f.seq[p]

\* C3 (as claimed): with repeat-counting, the annotation at a trigger token
\* whose response is emitted next is the number of occurrences of that
\* trigger in the sequence up to and including that position
C3_CountsOccurrencesInSequence ==
  \A s \in DOMAIN fr :
    (Sampled(fr[s]) /\ self.output_counter) =>
      LET f == fr[s] IN
      \A p \in (PrefixLen(f) + 1)..(Len(f.seq) - 1) :
        f.seq[p] \in Range(f.idxs) => f.outputs_seq[p] = Occurrences(f.seq, 1, p)

\* C3 (amended): with repeat-counting, the annotation at a sampled trigger
\* token whose response is emitted next is the number of occurrences of that
\* trigger among the sampled positions up to and including that position
\* (the latent prefix is not counted); every sequence counts from 1
C3_CountsSampledOccurrences ==
  \A s \in DOMAIN fr :
    (Sampled(fr[s]) /\ self.output_counter) =>
      LET f == fr[s] IN
      \A p \in (PrefixLen(f) + 1)..(Len(f.seq) - 1) :
        f.seq[p] \in Range(f.idxs) =>
          f.outputs_seq[p] = Occurrences(f.seq, PrefixLen(f) + 1, p)

C3_Witness ==
  \E s \in DOMAIN fr :
    LET f == fr[s] IN
    /\ f.pc = "returned"
    /\ self.output_counter
    /\ self.show_latents
    /\ Len(f.idxs) > 0
    /\ \E p \in 1..Len(f.outputs_seq) : f.outputs_seq[p] = 2

\* 0-based position of id x in the candidate pool of trigger t
PositionInPool(x, t) == IF self.no_repeat /\ x > t THEN x - 1 ELSE x

\* C4: with a split, the response of every trigger lies in the first
\* floor(0.75*V) entries of that trigger's pool in train mode and in the
\* remaining entries in test mode; the two portions of a pool are disjoint
C4_ResponseInOwnPortion ==
  \A s \in DOMAIN fr :
    (Chosen(fr[s]) /\ self.train_test # "None") =>
      LET f == fr[s]
          n == (3 * self.num_tokens) \div 4 IN
      \A i \in 1..Len(f.idxs) :
        LET t == f.idxs[i]
            pool == Pool(t) IN
        /\ self.no_repeat => f.outs[i] # t
        /\ self.train_test = "train" => PositionInPool(f.outs[i], t) < n
        /\ self.train_test = "test" => PositionInPool(f.outs[i], t) >= n
        /\ Range(PySlice(pool, 0, n)) \cap Range(PySlice(pool, n, Len(pool))) = {}

C4_Witness ==
  \E s \in DOMAIN fr :
    LET f == fr[s] IN
    /\ f.pc = "returned"
    /\ self.train_test = "test"
    /\ self.no_repeat
    /\ Len(f.idxs) > 0

\* C5: train responses come only from the first 75% of the ids and test
\* responses only from the remaining ids
C5_SplitByTokenId ==
  \A s \in DOMAIN fr :
    (Chosen(fr[s]) /\ self.train_test # "None") =>
      LET f == fr[s]
          n == (3 * self.num_tokens) \div 4 IN
      \A i \in 1..Len(f.idxs) :
        /\ self.train_test = "train" => f.outs[i] < n
        /\ self.train_test = "test" => f.outs[i] >= n

\* C7: with no_repeat, the response of every trigger differs from the trigger
C7_ResponseIsNotTrigger ==
  \A s \in DOMAIN fr :
    (Chosen(fr[s]) /\ self.no_repeat) =>
      \A i \in 1..Len(fr[s].idxs) : fr[s].outs[i] # fr[s].idxs[i]

C7_Witness ==
  \E s \in DOMAIN fr :
    LET f == fr[s] IN
    /\ f.pc = "returned"
    /\ self.no_repeat
    /\ self.bigram_outs
    /\ self.idxs_none
    /\ Len(f.idxs) = MaxK

\* C8: no Dataset is built from bigram counts with a row of total zero
C8_ZeroRowFailsConstruction ==
  (\E i \in Tok(meta.vocab_size) :
     \A j \in Tok(meta.vocab_size) : meta.bigrams[<<i, j>>] = 0)
    => obj # "built"

\* the tokens available for trigger selection
Available == IF args.fixed_special_toks
             THEN meta.vocab_size - args.special_toks_offset
             ELSE meta.vocab_size

\* C9: with k larger than the number of available tokens, construction or
\* the first gen_seq fails: no sequence is generated
C9_TooManyTriggersFails ==
  args.k > Available =>
    \A s \in DOMAIN fr : ~Sampled(fr[s])

\* the ranks, from the most frequent end, token t can take
RankLo(t) == 1 + Cardinality({u \in Tok(meta.vocab_size) : meta.unigrams[u] > meta.unigrams[t]})
RankHi(t) == Cardinality({u \in Tok(meta.vocab_size) : meta.unigrams[u] >= meta.unigrams[t]})

\* C10: in fixed mode with 0 <= k <= V, the trigger set holds exactly k
\* distinct tokens, those of rank offset+1..offset+k, and every sequence
\* uses this set
C10_FixedTriggersAreRankWindow ==
  (obj = "built" /\ args.fixed_special_toks /\ args.k <= meta.vocab_size) =>
    LET lo == args.special_toks_offset + 1
        hi == args.special_toks_offset + args.k IN
    /\ Len(self.idxs) = args.k
    /\ Cardinality(Range(self.idxs)) = args.k
    /\ \A t \in Range(self.idxs) : RankLo(t) <= hi /\ RankHi(t) >= lo
    /\ \A t \in Tok(meta.vocab_size) \ Range(self.idxs) : ~(lo <= RankLo(t) /\ RankHi(t) <= hi)
    /\ \A s \in DOMAIN fr : fr[s].pc \in {"outs", "first", "loop", "returned"}
                              => fr[s].idxs = self.idxs

\* C6: two streams with the same seed and batch size over the same Dataset
\* have yielded the same triples at every pull index both have reached
C6_SameSeedSameBatches ==
  \A s1, s2 \in DOMAIN ys :
    (bt[s1].seed = bt[s2].seed /\ bt[s1].batch_size = bt[s2].batch_size) =>
      \A i \in 1..Len(ys[s1]) : i <= Len(ys[s2]) => ys[s1][i] = ys[s2][i]

C6_Witness ==
  /\ self.idxs_none
  /\ self.k > 0
  /\ \A s \in Streams : Len(ys[s]) = MaxPulls
  /\ ys[1][1] # ys[1][2]

====
